---- MODULE Spec2Model ----
(***************************************************************************)
(* Model of the energy-data feature pipeline: the batch script            *)
(* (lab1/main.py: load_data, clean_data, engineer_features) and the two    *)
(* dashboard loaders (lab1/lab1_app.py and lab1_app.py: load_data).        *)
(*                                                                         *)
(* A table (DataFrame) is a record [cols, index, rows]: cols is the        *)
(* ordered list of column names, index the sequence of row labels, rows a  *)
(* sequence of functions from column name to cell.                         *)
(* A numeric cell is a pair <<n, d>> standing for the float n/d in lowest  *)
(* terms (d > 0); d = 0 encodes the IEEE specials: <<0,0>> is NaN,         *)
(* <<1,0>> is +inf and <<-1,0>> is -inf.                                   *)
(***************************************************************************)
EXTENDS Integers, Sequences, FiniteSets, TLC

\* raw:  the table read from the CSV file (read_csv with parse_dates)
\* prog: the program that runs: "script" (lab1/main.py), "dash"
\*       (lab1/lab1_app.py) or "app" (lab1_app.py)
\* pc:   the position of that program
\* table: the program's DataFrame df
\* readable: whether the input file is there and can be read
\* view: the rows the dashboard shows after its date filter
\* output: what the program has printed or shown so far, in order
\* uploaded_file: the file in the dashboard's uploader (NoTable: none)
\* cache: the results st.cache_data holds for load_data, by argument
\* temp_files: create_comprehensive_pdf's list of temporary file names
\* tmp_dir: the temporary image files that exist on disk
VARIABLES raw, readable, prog, pc, table, view, output,
          uploaded_file, cache, temp_files, tmp_dir

vars == <<raw, readable, prog, pc, table, view, output,
          uploaded_file, cache, temp_files, tmp_dir>>

\* The state of create_comprehensive_pdf.
pdf == <<temp_files, tmp_dir>>

\* ------------------------------------------------------------------------
\* Bounds of the model
\* ------------------------------------------------------------------------

\* Largest number of rows of an input table of the cleaning inputs.
MaxRows == 4

\* ------------------------------------------------------------------------
\* Floating-point cells
\* ------------------------------------------------------------------------

NaN == <<0, 0>>
PosInf == <<1, 0>>
NegInf == <<-1, 0>>

Abs(n) == IF n < 0 THEN -n ELSE n

Sign(n) == IF n < 0 THEN -1 ELSE IF n > 0 THEN 1 ELSE 0

RECURSIVE GCD(_, _)
GCD(a, b) == IF b = 0 THEN a ELSE GCD(b, a % b)

\* The cell n/d in lowest terms, with a positive denominator.
Norm(n, d) ==
    IF d = 0 THEN <<Sign(n), 0>>
    ELSE LET s == IF d < 0 THEN -1 ELSE 1
             g == GCD(Abs(n), Abs(d))
         IN  <<(s * n) \div g, (s * d) \div g>>

Num(i) == <<i, 1>>

IsNaN(x) == x = NaN
IsFinite(x) == x[2] # 0

FAdd(x, y) ==
    IF IsNaN(x) \/ IsNaN(y) THEN NaN
    ELSE IF ~IsFinite(x) /\ ~IsFinite(y) THEN (IF x = y THEN x ELSE NaN)
    ELSE IF ~IsFinite(x) THEN x
    ELSE IF ~IsFinite(y) THEN y
    ELSE Norm(x[1] * y[2] + y[1] * x[2], x[2] * y[2])

FNeg(x) == <<-x[1], x[2]>>

FSub(x, y) == FAdd(x, FNeg(y))

\* 0 * inf is NaN = <<0, 0>>, which the product of the pairs gives as it is.
FMul(x, y) == Norm(x[1] * y[1], x[2] * y[2])

\* True division of floats: x/0 is +-inf, 0/0 is NaN (numpy, no exception).
FDiv(x, y) ==
    IF IsNaN(x) \/ IsNaN(y) THEN NaN
    ELSE IF ~IsFinite(x)
         THEN (IF ~IsFinite(y) THEN NaN
               ELSE IF y[1] < 0 THEN FNeg(x) ELSE x)
    ELSE Norm(x[1] * y[2], x[2] * y[1])

\* x <= y on floats; any comparison with NaN is false.
FLe(x, y) ==
    IF IsNaN(x) \/ IsNaN(y) THEN FALSE
    ELSE IF x = NegInf \/ y = PosInf THEN TRUE
    ELSE IF x = PosInf \/ y = NegInf THEN FALSE
    ELSE x[1] * y[2] <= y[1] * x[2]

FAbs(x) == <<Abs(x[1]), x[2]>>

\* Series.fillna(v): only NaN is replaced, infinities stay.
fillna(x, v) == IF IsNaN(x) THEN v ELSE x

\* Series.clip(lo, hi): NaN stays NaN, infinities are clamped.
clip(x, lo, hi) ==
    IF IsNaN(x) THEN NaN
    ELSE IF FLe(x, lo) THEN lo
    ELSE IF FLe(hi, x) THEN hi
    ELSE x

\* Series.round(k) for scale = 10^k: round half to even; NaN and inf stay.
round(x, scale) ==
    IF ~IsFinite(x) THEN x
    ELSE LET n == x[1] * scale
             q == n \div x[2]
             r == n - q * x[2]
             up == \/ 2 * r > x[2]
                   \/ 2 * r = x[2] /\ q % 2 = 1
         IN  Norm(IF up THEN q + 1 ELSE q, scale)

\* ------------------------------------------------------------------------
\* Timestamps (the parsed "date" column) and the .dt accessors
\* ------------------------------------------------------------------------

\* Days since 1970-01-01 of a proleptic Gregorian date.
DaysFromCivil(y, m, d) ==
    LET yy  == IF m <= 2 THEN y - 1 ELSE y
        era == yy \div 400
        yoe == yy - era * 400
        mp  == (m + 9) % 12
        doy == (153 * mp + 2) \div 5 + d - 1
        doe == yoe * 365 + yoe \div 4 - yoe \div 100 + doy
    IN  era * 146097 + doe - 719468

\* Series.dt.day_of_week: Monday = 0 ... Sunday = 6 (1970-01-01: Thursday).
day_of_week(t) == (DaysFromCivil(t.year, t.month, t.day) + 3) % 7

DayNames == <<"Monday", "Tuesday", "Wednesday", "Thursday", "Friday",
              "Saturday", "Sunday">>

\* Series.dt.day_name()
day_name(t) == DayNames[day_of_week(t) + 1]

\* Series.dt.quarter
quarter(t) == (t.month - 1) \div 3 + 1

\* ------------------------------------------------------------------------
\* Tables
\* ------------------------------------------------------------------------

Range(s) == {s[i] : i \in DOMAIN s}

HasCol(df, c) == c \in Range(df.cols)

\* df[c]: the column as a sequence of cells, in row order.
Col(df, c) == [i \in DOMAIN df.rows |-> df.rows[i][c]]

\* Mutant of SetCol: a column the table already has is left as it is.
SetCol_keep_existing(df, c, series) ==
    IF HasCol(df, c) THEN df
    ELSE [cols |-> Append(df.cols, c),
          index |-> df.index,
          rows |-> [i \in DOMAIN df.rows |->
                      [k \in Range(df.cols) \cup {c} |->
                          IF k = c THEN series[i] ELSE df.rows[i][k]]]]

\* df[c] = series: an existing column is overwritten in place, a new one is
\* appended after the last column; rows are neither added nor moved.
SetCol(df, c, series) ==
    [cols |-> IF HasCol(df, c) THEN df.cols ELSE Append(df.cols, c),
     index |-> df.index,
     rows |-> [i \in DOMAIN df.rows |->
                 [k \in Range(df.cols) \cup {c} |->
                     IF k = c THEN series[i] ELSE df.rows[i][k]]]]

\* Columns whose dtype is not a number: timestamps, strings and booleans.
NonNumeric == {"date", "ziua_saptamanii", "weekend"}

\* df.select_dtypes(include=[np.number]).columns
numeric_cols(df) == Range(df.cols) \ NonNumeric

\* df.isnull().sum().sum(): the number of missing cells.  The timestamps of
\* the modelled inputs all parse, so only numeric cells can be missing.
missing(df) ==
    Cardinality({<<i, c>> \in (DOMAIN df.rows) \X numeric_cols(df) :
                    IsNaN(df.rows[i][c])})

\* ------------------------------------------------------------------------
\* clean_data (lab1/main.py)
\* ------------------------------------------------------------------------

SetMax(S) == CHOOSE x \in S : \A y \in S : y <= x

SetMin(S) == CHOOSE x \in S : \A y \in S : x <= y

\* Mutant of interpolate_series: interpolate(limit=1), at most one missing
\* cell is filled after each valid cell.
interpolate_series_limit1(s) ==
    [i \in DOMAIN s |->
        IF ~IsNaN(s[i]) \/ i = 1 THEN s[i]
        ELSE IF IsNaN(s[i - 1]) THEN NaN
        ELSE LET after == {j \in DOMAIN s : j > i /\ ~IsNaN(s[j])}
             IN  IF after = {} THEN s[i - 1]
                 ELSE LET q == SetMin(after)
                      IN  FAdd(s[i - 1],
                               FMul(FSub(s[q], s[i - 1]),
                                    Norm(1, q - i + 1)))]

\* Series.interpolate() with its defaults (method="linear",
\* limit_direction="forward"): a missing cell between two valid cells gets the
\* value on the straight line between them, rows counted as equally spaced;
\* missing cells after the last valid cell repeat it; missing cells before the
\* first valid cell are left missing.
interpolate_series(s) ==
    [i \in DOMAIN s |->
        IF ~IsNaN(s[i]) THEN s[i]
        ELSE LET before == {j \in DOMAIN s : j < i /\ ~IsNaN(s[j])}
                 after  == {j \in DOMAIN s : j > i /\ ~IsNaN(s[j])}
             IN  IF before = {} THEN NaN
                 ELSE LET p == SetMax(before)
                      IN  IF after = {} THEN s[p]
                          ELSE LET q == SetMin(after)
                               IN  FAdd(s[p],
                                        FMul(FSub(s[q], s[p]),
                                             Norm(i - p, q - p)))]

\* df[numeric_cols] = df[numeric_cols].interpolate()
interpolate(df) ==
    [cols |-> df.cols,
     index |-> df.index,
     rows |-> [i \in DOMAIN df.rows |->
                 [c \in Range(df.cols) |->
                     IF c \in numeric_cols(df)
                     THEN interpolate_series(Col(df, c))[i]
                     ELSE df.rows[i][c]]]]

\* df.duplicated(): the rows equal, on every column, to an earlier row.
\* Missing cells count as equal to missing cells.
duplicated(df) ==
    {i \in DOMAIN df.rows : \E j \in DOMAIN df.rows :
                                j < i /\ df.rows[j] = df.rows[i]}

RECURSIVE TakeRows(_, _, _)
TakeRows(rows, keep, i) ==
    IF i > Len(rows) THEN <<>>
    ELSE (IF i \in keep THEN <<rows[i]>> ELSE <<>>)
         \o TakeRows(rows, keep, i + 1)

\* df.drop_duplicates(): the first of each group of equal rows is kept, the
\* remaining rows keep their order and their labels.
drop_duplicates(df) ==
    LET keep == (DOMAIN df.rows) \ duplicated(df)
    IN  [cols |-> df.cols,
         index |-> TakeRows(df.index, keep, 1),
         rows |-> TakeRows(df.rows, keep, 1)]

\* clean_data, first part: missing values.
clean_missing(df) == IF missing(df) > 0 THEN interpolate(df) ELSE df

\* clean_data, second part: duplicates.
clean_duplicates(df) ==
    IF Cardinality(duplicated(df)) > 0 THEN drop_duplicates(df) ELSE df

clean_data(df) == clean_duplicates(clean_missing(df))

\* ------------------------------------------------------------------------
\* Feature engineering: the derived cells of one row
\* ------------------------------------------------------------------------

an(r) == Num(r["date"].year)
luna(r) == Num(r["date"].month)
ziua(r) == Num(r["date"].day)
ora(r) == Num(r["date"].hour)
ziua_saptamanii(r) == day_name(r["date"])
\* Mutant of weekend: Sunday only.
weekend_sunday_only(r) == day_of_week(r["date"]) >= 6

weekend(r) == day_of_week(r["date"]) >= 5
trimestru(r) == Num(quarter(r["date"]))

RECURSIVE SumSkipNa(_, _)
\* df[[...]].sum(axis=1): the row-wise sum, missing cells skipped (counted
\* as 0); a row whose cells are all missing sums to 0.
SumSkipNa(r, names) ==
    IF names = <<>> THEN Num(0)
    ELSE FAdd(fillna(r[Head(names)], Num(0)), SumSkipNa(r, Tail(names)))

Renewable == <<"hidro", "fotovolt", "eolian", "biomasa">>
NonRenewable == <<"carbune", "hidrocarburi", "nuclear">>

\* lab1/main.py and lab1/lab1_app.py: the row-wise sums
total_regenerabila(r) == SumSkipNa(r, Renewable)
total_neregenerabila(r) == SumSkipNa(r, NonRenewable)

\* lab1_app.py: the sums by column addition, which propagates missing cells
total_regenerabila_add(r) ==
    FAdd(FAdd(FAdd(r["hidro"], r["fotovolt"]), r["eolian"]), r["biomasa"])
total_neregenerabila_add(r) ==
    FAdd(FAdd(r["carbune"], r["hidrocarburi"]), r["nuclear"])

\* lab1/main.py
consum_acoperit(r) == round(FDiv(r["productie"], r["consum"]), 1000)
procent_regenerabila_round(r) ==
    round(FMul(FDiv(r["total_regenerabila"], r["productie"]), Num(100)), 100)
sold_absolut(r) == FAbs(r["sold"])

\* lab1/lab1_app.py and lab1_app.py
procent_regenerabila(r) ==
    fillna(FMul(FDiv(r["total_regenerabila"], r["productie"]), Num(100)),
           Num(0))
\* Mutant of sold_energetic: the operands swapped.
sold_energetic_swapped(r) == FSub(r["consum"], r["productie"])
sold_energetic(r) == FSub(r["productie"], r["consum"])

\* lab1/lab1_app.py
eficienta_retea(r) ==
    clip(FMul(FDiv(r["productie"], r["consum"]), Num(100)), Num(0), Num(200))

\* The column assignments of each program, in the order of the code.
ScriptSteps == <<"an", "luna", "ziua", "ora", "ziua_saptamanii", "weekend",
                 "trimestru", "consum_acoperit", "total_regenerabila",
                 "procent_regenerabila", "sold_absolut">>
DashSteps == <<"an", "luna", "ziua", "ora", "ziua_saptamanii", "weekend",
               "trimestru", "total_regenerabila", "total_neregenerabila",
               "procent_regenerabila", "sold_energetic", "eficienta_retea">>
AppSteps == <<"an", "luna", "ziua", "ora", "ziua_saptamanii", "weekend",
              "total_regenerabila", "total_neregenerabila",
              "procent_regenerabila", "sold_energetic">>

Steps(p) == CASE p = "script" -> ScriptSteps
              [] p = "dash" -> DashSteps
              [] p = "app" -> AppSteps

\* The columns the right-hand side of the assignment to column c reads.
Needs(c) ==
    CASE c \in {"an", "luna", "ziua", "ora", "ziua_saptamanii", "weekend",
                "trimestru"} -> {"date"}
      [] c \in {"consum_acoperit", "sold_energetic", "eficienta_retea"}
            -> {"productie", "consum"}
      [] c = "total_regenerabila" -> Range(Renewable)
      [] c = "total_neregenerabila" -> Range(NonRenewable)
      [] c = "procent_regenerabila" -> {"total_regenerabila", "productie"}
      [] c = "sold_absolut" -> {"sold"}

\* The column reads of the right-hand side of program p's assignment to
\* column c, in the order Python evaluates them: df[name] reads one column,
\* df[[names]] reads a list of columns at once.
Reads(p, c) ==
    CASE c \in {"an", "luna", "ziua", "ora", "ziua_saptamanii", "weekend",
                "trimestru"} -> <<{"date"}>>
      [] c \in {"consum_acoperit", "sold_energetic", "eficienta_retea"}
            -> <<{"productie"}, {"consum"}>>
      [] c = "total_regenerabila" ->
            IF p = "app" THEN [i \in DOMAIN Renewable |-> {Renewable[i]}]
            ELSE <<Range(Renewable)>>
      [] c = "total_neregenerabila" ->
            IF p = "app" THEN [i \in DOMAIN NonRenewable |-> {NonRenewable[i]}]
            ELSE <<Range(NonRenewable)>>
      [] c = "procent_regenerabila" -> <<{"total_regenerabila"}, {"productie"}>>
      [] c = "sold_absolut" -> <<{"sold"}>>

\* The column names the KeyError of the first failing read names: the one
\* name of df[name], every absent name of df[[names]].
KeyErrorNames(t, reads) ==
    LET bad == {i \in DOMAIN reads : ~(reads[i] \subseteq Range(t.cols))}
    IN  IF bad = {} THEN {}
        ELSE reads[CHOOSE i \in bad : \A j \in bad : i <= j] \ Range(t.cols)

\* The cell that program p assigns to column c of row r.
Derive(p, c, r) ==
    CASE c = "an" -> an(r)
      [] c = "luna" -> luna(r)
      [] c = "ziua" -> ziua(r)
      [] c = "ora" -> ora(r)
      [] c = "ziua_saptamanii" -> ziua_saptamanii(r)
      [] c = "weekend" -> weekend(r)
      [] c = "trimestru" -> trimestru(r)
      [] c = "consum_acoperit" -> consum_acoperit(r)
      [] c = "total_regenerabila" ->
            IF p = "app" THEN total_regenerabila_add(r)
            ELSE total_regenerabila(r)
      [] c = "total_neregenerabila" ->
            IF p = "app" THEN total_neregenerabila_add(r)
            ELSE total_neregenerabila(r)
      [] c = "procent_regenerabila" ->
            IF p = "script" THEN procent_regenerabila_round(r)
            ELSE procent_regenerabila(r)
      [] c = "sold_absolut" -> sold_absolut(r)
      [] c = "sold_energetic" -> sold_energetic(r)
      [] c = "eficienta_retea" -> eficienta_retea(r)

RECURSIVE Assign_shifted(_, _, _)
\* Mutant of Assign: every row but the first gets the values derived from
\* the row before it (df[...].shift(1)).
Assign_shifted(p, t, steps) ==
    IF steps = <<>> THEN [df |-> t, error |-> FALSE, named |-> {}]
    ELSE LET c == Head(steps)
         IN  IF ~(Needs(c) \subseteq Range(t.cols))
             THEN [df |-> t, error |-> TRUE,
                   named |-> KeyErrorNames(t, Reads(p, c))]
             ELSE Assign_shifted(p,
                         SetCol(t, c, [i \in DOMAIN t.rows |->
                                          Derive(p, c, t.rows[IF i > 1 THEN i - 1
                                                              ELSE i])]),
                         Tail(steps))

RECURSIVE Assign(_, _, _)
\* The assignments `steps` of program p applied to t one after the other.
\* Reading a column the table lacks raises KeyError: the assignments before
\* it have been made, those after it have not.
Assign(p, t, steps) ==
    IF steps = <<>> THEN [df |-> t, error |-> FALSE, named |-> {}]
    ELSE LET c == Head(steps)
         IN  IF ~(Needs(c) \subseteq Range(t.cols))
             THEN [df |-> t, error |-> TRUE,
                   named |-> KeyErrorNames(t, Reads(p, c))]
             ELSE Assign(p,
                         SetCol(t, c, [i \in DOMAIN t.rows |->
                                          Derive(p, c, t.rows[i])]),
                         Tail(steps))

\* Mutant of engineer_features: the rows with a missing cell are dropped
\* first (df = df.dropna()).
engineer_features_dropna(t) ==
    LET keep == {i \in DOMAIN t.rows :
                    \A c \in numeric_cols(t) : ~IsNaN(t.rows[i][c])}
    IN  Assign("script",
               [cols |-> t.cols,
                index |-> TakeRows(t.index, keep, 1),
                rows |-> TakeRows(t.rows, keep, 1)],
               ScriptSteps)

\* lab1/main.py: engineer_features(df)
engineer_features(t) == Assign("script", t, ScriptSteps)

\* The value of a table variable that holds no table (None, or never bound).
NoTable == [cols |-> <<>>, index |-> <<>>, rows |-> <<>>]

\* pd.read_csv(..., parse_dates=["date"]) of a file that holds table t: a
\* file without a date column raises ValueError, which names that column.
read_csv(t) ==
    IF HasCol(t, "date") THEN [df |-> t, error |-> FALSE, named |-> {}]
    ELSE [df |-> NoTable, error |-> TRUE, named |-> {"date"}]

\* lab1/lab1_app.py: load_data() of a readable file that holds t.  Any
\* exception is caught, its text is shown with st.error, and None is
\* returned.
load_data_dash(t) ==
    LET res == IF read_csv(t).error THEN read_csv(t)
               ELSE Assign("dash", t, DashSteps)
    IN  IF res.error
        THEN [df |-> NoTable, error |-> TRUE, named |-> res.named]
        ELSE res

\* lab1_app.py: load_data() of a readable file that holds t.  An exception
\* propagates and nothing is returned.
load_data_app(t) ==
    LET res == IF read_csv(t).error THEN read_csv(t)
               ELSE Assign("app", t, AppSteps)
    IN  IF res.error
        THEN [df |-> NoTable, error |-> TRUE, named |-> res.named]
        ELSE res

\* The file load_data(u) reads: the upload u, or the default dataset when
\* there is none (u = NoTable); ok tells whether the file can be read.
Selected(u, default_ok, default) ==
    IF u = NoTable THEN [ok |-> default_ok, content |-> default]
    ELSE [ok |-> TRUE, content |-> u]

\* lab1/lab1_app.py: the body of load_data on file f.  Every exception is
\* caught and None returned.
load_data_file(f) ==
    IF ~f.ok THEN [df |-> NoTable, error |-> TRUE, named |-> {}]
    ELSE load_data_dash(f.content)

\* @st.cache_data load_data(u): the result cached for argument u if there
\* is one (an upload is hashed by its content, no upload is the one key
\* None), otherwise the body's result, which is then cached; a returned
\* None is a result like any other.
cached_load_data(c, u, f) ==
    IF \E e \in c : e.key = u
    THEN [res |-> (CHOOSE e \in c : e.key = u).res, cache |-> c]
    ELSE [res |-> load_data_file(f),
          cache |-> c \cup {[key |-> u, res |-> load_data_file(f)]}]

\* ------------------------------------------------------------------------
\* Reporting and charting (lab1/main.py)
\* ------------------------------------------------------------------------

RECURSIVE SumSeq(_)
SumSeq(s) == IF s = <<>> THEN Num(0) ELSE FAdd(Head(s), SumSeq(Tail(s)))

\* Series.mean(): the mean of the cells that are not missing, NaN if none.
mean(s) ==
    LET valid == SelectSeq(s, LAMBDA x : ~IsNaN(x))
    IN  IF valid = <<>> THEN NaN ELSE FDiv(SumSeq(valid), Num(Len(valid)))

\* generate_analysis_report(df): the performance figures it prints.
generate_analysis_report(df) ==
    [kind |-> "report",
     sold_mediu |-> mean(Col(df, "sold")),
     regenerabila_medie |-> mean(Col(df, "procent_regenerabila"))]

\* (df['ora'] // 3) * 3
interval_3h(r) == Num((r["ora"][1] \div 3) * 3)

\* df.groupby(['an', 'ziua'])['sold'].mean(): the daily balance chart.
sold_zilnic(df) ==
    LET keys == {<<df.rows[i]["an"], df.rows[i]["ziua"]>> : i \in DOMAIN df.rows}
    IN  [k \in keys |->
            mean(SelectSeq(
                [i \in DOMAIN df.rows |->
                    IF <<df.rows[i]["an"], df.rows[i]["ziua"]>> = k
                    THEN df.rows[i]["sold"] ELSE NaN],
                LAMBDA x : ~IsNaN(x)))]

\* create_visualizations(df): the table as the function leaves it (the
\* assignment to df['interval_3h'] acts on the caller's table) and the data
\* of the balance chart.
create_visualizations(df) ==
    [df |-> SetCol(df, "interval_3h",
                   [i \in DOMAIN df.rows |-> interval_3h(df.rows[i])]),
     chart |-> [kind |-> "charts", sold_zilnic |-> sold_zilnic(df)]]

\* ------------------------------------------------------------------------
\* The dashboard's views (lab1/lab1_app.py)
\* ------------------------------------------------------------------------

\* Series.dt.date, as a day number.
Day(t) == DaysFromCivil(t.year, t.month, t.day)

\* df[mask]: the rows whose position is in keep, with their labels.
Rows(df, keep) ==
    [cols |-> df.cols,
     index |-> TakeRows(df.index, keep, 1),
     rows |-> TakeRows(df.rows, keep, 1)]

\* Mutant of date_filter: the end date is left out.
date_filter_exclusive(df, date_range) ==
    IF Len(date_range) = 2
    THEN Rows(df, {i \in DOMAIN df.rows :
                      /\ Day(df.rows[i]["date"]) >= date_range[1]
                      /\ Day(df.rows[i]["date"]) < date_range[2]})
    ELSE df

\* main(): the date range filter.  date_range is what st.date_input
\* returned: a pair of days, or a single day while the user is picking.
date_filter(df, date_range) ==
    IF Len(date_range) = 2
    THEN Rows(df, {i \in DOMAIN df.rows :
                      /\ Day(df.rows[i]["date"]) >= date_range[1]
                      /\ Day(df.rows[i]["date"]) <= date_range[2]})
    ELSE df

\* Mutant of explorer_filter: the last year of the range is left out.
explorer_filter_exclusive(df, year_range, selected_months) ==
    Rows(df, {i \in DOMAIN df.rows :
                 /\ df.rows[i]["an"][1] >= year_range[1]
                 /\ df.rows[i]["an"][1] < year_range[2]
                 /\ df.rows[i]["luna"][1] \in selected_months})

\* create_data_explorer(df): filtered_data
explorer_filter(df, year_range, selected_months) ==
    Rows(df, {i \in DOMAIN df.rows :
                 /\ df.rows[i]["an"][1] >= year_range[1]
                 /\ df.rows[i]["an"][1] <= year_range[2]
                 /\ df.rows[i]["luna"][1] \in selected_months})

\* A cell as a field of an exported file: a missing number is written as an
\* empty field (<<>>), every other cell as its text (<<cell>>).
Field(c, x) == IF c \notin NonNumeric /\ IsNaN(x) THEN <<>> ELSE <<x>>

\* DataFrame.to_csv(index=False): the header and one line per row, the row
\* labels left out.
to_csv(df) ==
    [header |-> df.cols,
     lines |-> [i \in DOMAIN df.rows |->
                  [k \in DOMAIN df.cols |->
                      Field(df.cols[k], df.rows[i][df.cols[k]])]]]

\* DataFrame.to_excel(writer, index=False): the header and one sheet row per
\* row, a missing number as an empty cell.
to_excel(df) ==
    [header |-> df.cols,
     lines |-> [i \in DOMAIN df.rows |->
                  [k \in DOMAIN df.cols |->
                      Field(df.cols[k], df.rows[i][df.cols[k]])]]]

\* create_data_explorer(df): what the tab shows for the selections.
create_data_explorer(df, year_range, selected_months) ==
    LET filtered_data == explorer_filter(df, year_range, selected_months)
    IN  IF filtered_data.rows # <<>>
        THEN <<[kind |-> "download",
                year_range |-> year_range,
                selected_months |-> selected_months,
                csv |-> to_csv(filtered_data),
                excel |-> to_excel(filtered_data)]>>
        ELSE <<[kind |-> "warning",
                year_range |-> year_range,
                selected_months |-> selected_months]>>

\* The selections the widgets offer.
DateSelections(df) ==
    LET days == {Day(df.rows[i]["date"]) : i \in DOMAIN df.rows}
        lo == SetMin(days)
        hi == SetMax(days)
        picks == days \cup ({lo + 1} \cap lo..hi)
    IN  {ab \in picks \X picks : ab[1] <= ab[2]} \cup {<<lo>>}

YearRanges(df) ==
    LET available_years == {df.rows[i]["an"][1] : i \in DOMAIN df.rows}
    IN  {ab \in available_years \X available_years : ab[1] <= ab[2]}

MonthSelections == {1..12, {}, {1, 10}}

\* lab1_app.py: the two date inputs, each between 2024-01-01 and 2025-10-31
\* and independent of the other.
StartDates(df) ==
    {DaysFromCivil(2024, 1, 1),
     SetMax({Day(df.rows[i]["date"]) : i \in DOMAIN df.rows})}

EndDates(df) ==
    {SetMin({Day(df.rows[i]["date"]) : i \in DOMAIN df.rows}),
     DaysFromCivil(2025, 10, 31)}

\* A message shown in place of a result: a printed error, st.error, or the
\* traceback of an exception nothing caught; named holds the column names
\* the message carries.
Error(names) == [kind |-> "error", named |-> names]

\* ------------------------------------------------------------------------
\* Input files
\* ------------------------------------------------------------------------

\* The columns of raw_energy_data.csv.
RawCols == <<"date", "consum", "productie", "sold", "carbune", "hidro",
             "hidrocarburi", "nuclear", "eolian", "fotovolt", "biomasa">>

Date(y, m, d, h) == [year |-> y, month |-> m, day |-> d, hour |-> h]

\* A Monday, two hours apart.
CleanDates == {Date(2024, 1, 1, 0), Date(2024, 1, 1, 1)}

\* A Friday, a Saturday and a Sunday, in three different quarters.
EnrichDates == {Date(2024, 1, 5, 10), Date(2024, 6, 8, 23),
                Date(2025, 10, 26, 0)}

MakeRow(date, productie, consum, sold, hidro, eolian, carbune) ==
    [c \in Range(RawCols) |->
        CASE c = "date" -> date
          [] c = "productie" -> productie
          [] c = "consum" -> consum
          [] c = "sold" -> sold
          [] c = "hidro" -> hidro
          [] c = "eolian" -> eolian
          [] c = "carbune" -> carbune
          [] c = "nuclear" -> Num(1)
          [] OTHER -> Num(0)]

\* Rows for the cleaning step: the timestamp and productie vary, productie
\* may be missing.
CleanRows ==
    {MakeRow(d, p, Num(2), Num(0), Num(1), Num(0), Num(0)) :
        d \in CleanDates, p \in {NaN, Num(1), Num(4)}}

\* Rows for the enrichment: zero, negative, missing and large cells.
EnrichRows ==
    {MakeRow(d, pq[1], pq[2], s, h, e, c) :
        d \in EnrichDates,
        pq \in {NaN, Num(-1), Num(0), Num(1), Num(3)}
                \X {NaN, Num(0), Num(1), Num(3)},
        s \in {NaN, Num(-2)},
        h \in {NaN, Num(0), Num(2)},
        e \in {Num(0), Num(1)},
        c \in {NaN, Num(1)}}

\* A few rows for the tables whose columns differ from RawCols.
FewRows ==
    {MakeRow(d, p, Num(2), Num(-2), Num(1), Num(0), Num(1)) :
        d \in EnrichDates, p \in {Num(0), Num(3)}}

\* read_csv: the rows are labelled 0, 1, 2, ... in file order.
Table(rows) ==
    [cols |-> RawCols,
     index |-> [i \in DOMAIN rows |-> i - 1],
     rows |-> rows]

\* Tables of 1 .. n rows drawn from R.
TablesOf(R, n) ==
    UNION {{Table(rows) : rows \in [1..k -> R]} : k \in 1..n}

\* An uploaded file that already has a column named like a derived column.
WithColumn(t, c) == SetCol(t, c, [i \in DOMAIN t.rows |-> Num(7)])

\* A file that lacks column c.
WithoutColumn(t, c) ==
    [cols |-> SelectSeq(t.cols, LAMBDA k : k # c),
     index |-> t.index,
     rows |-> [i \in DOMAIN t.rows |->
                 [k \in Range(t.cols) \ {c} |-> t.rows[i][k]]]]

Inputs ==
    TablesOf(CleanRows, MaxRows)
    \cup TablesOf(EnrichRows, 1)
    \cup {WithColumn(t, c) : t \in TablesOf(FewRows, 1),
                             c \in {"an", "sold_energetic",
                                    "procent_regenerabila"}}
    \cup {WithoutColumn(t, c) : t \in TablesOf(FewRows, 1),
                                c \in {"sold", "hidro", "consum", "date"}}
    \cup {WithoutColumn(WithoutColumn(t, "consum"), "hidro") :
            t \in TablesOf(FewRows, 1)}
    \cup {t \in TablesOf(FewRows, 2) :
            Len(t.rows) = 2 /\ t.rows[1] # t.rows[2]}

\* ------------------------------------------------------------------------
\* The programs
\* ------------------------------------------------------------------------

Init ==
    /\ \/ readable = TRUE /\ raw \in Inputs
       \/ readable = FALSE /\ raw = NoTable
    /\ prog \in {"script", "dash", "app"}
    /\ pc = "start"
    /\ table = NoTable
    /\ view = NoTable
    /\ output = <<>>
    /\ uploaded_file = NoTable
    /\ cache = {}
    /\ temp_files = <<>>
    /\ tmp_dir = {}

\* lab1/main.py main(): df = load_data().  A file that is not there, or one
\* read_csv cannot parse, is reported and the program exits.
ScriptLoadData ==
    /\ prog = "script" /\ pc = "start"
    /\ IF ~readable
       THEN /\ pc' = "exited"
            /\ output' = <<Error({})>>
            /\ UNCHANGED table
       ELSE LET res == read_csv(raw)
            IN  IF res.error
                THEN /\ pc' = "exited"
                     /\ output' = <<Error(res.named)>>
                     /\ UNCHANGED table
                ELSE /\ pc' = "loaded"
                     /\ table' = res.df
                     /\ UNCHANGED output
    /\ UNCHANGED <<uploaded_file, cache, pdf, raw, readable, prog, view>>

\* lab1/main.py clean_data(): the missing values
ScriptCleanMissing ==
    /\ prog = "script" /\ pc = "loaded"
    /\ table' = clean_missing(table)
    /\ pc' = "interpolated"
    /\ UNCHANGED <<uploaded_file, cache, pdf, raw, readable, prog, view, output>>

\* lab1/main.py clean_data(): the duplicates, and the return
ScriptCleanDuplicates ==
    /\ prog = "script" /\ pc = "interpolated"
    /\ table' = clean_duplicates(table)
    /\ pc' = "cleaned"
    /\ UNCHANGED <<uploaded_file, cache, pdf, raw, readable, prog, view, output>>

\* lab1/main.py main(): df = engineer_features(df).  The function assigns
\* to the columns of its argument; a KeyError ends the program with a
\* traceback.
ScriptEngineerFeatures ==
    /\ prog = "script" /\ pc = "cleaned"
    /\ LET res == engineer_features(table)
       IN  /\ table' = res.df
           /\ pc' = IF res.error THEN "crashed" ELSE "enriched"
           /\ output' = IF res.error THEN Append(output, Error(res.named))
                                     ELSE output
    /\ UNCHANGED <<uploaded_file, cache, pdf, raw, readable, prog, view>>

\* lab1/main.py main(): generate_analysis_report(df)
ScriptReport ==
    /\ prog = "script" /\ pc = "enriched"
    /\ output' = Append(output, generate_analysis_report(table))
    /\ pc' = "reported"
    /\ UNCHANGED <<uploaded_file, cache, pdf, raw, readable, prog, table, view>>

\* lab1/main.py main(): create_visualizations(df)
ScriptCharts ==
    /\ prog = "script" /\ pc = "reported"
    /\ LET res == create_visualizations(table)
       IN  /\ table' = res.df
           /\ output' = Append(output, res.chart)
    /\ pc' = "done"
    /\ UNCHANGED <<uploaded_file, cache, pdf, raw, readable, prog, view>>

\* Mutant of DashLoadData: main() does not return when load_data returned
\* None and goes on to the tabs.
DashLoadData_no_return ==
    /\ prog = "dash" /\ pc = "start"
    /\ IF ~readable
       THEN /\ pc' = "rendered"
            /\ output' = <<Error({}), Error({}), [kind |-> "tabs"]>>
            /\ UNCHANGED table
       ELSE LET res == load_data_dash(raw)
            IN  /\ table' = res.df
                /\ pc' = IF res.error THEN "rendered" ELSE "enriched"
                /\ output' = IF res.error
                             THEN <<Error(res.named), Error({}),
                                    [kind |-> "tabs"]>>
                             ELSE output
    /\ UNCHANGED <<uploaded_file, cache, pdf, raw, readable, prog, view>>

\* lab1/lab1_app.py main() with u in the uploader, up to the return when
\* load_data gave None: load_data's error is shown (also when the result
\* comes from the cache, which replays it), then main()'s own.
Run(u) ==
    /\ prog = "dash"
    /\ LET r == cached_load_data(cache, u, Selected(u, readable, raw))
       IN  /\ table' = r.res.df
           /\ pc' = IF r.res.error THEN "none" ELSE "enriched"
           /\ output' = IF r.res.error
                        THEN <<Error(r.res.named), Error({})>>
                        ELSE <<>>
           /\ cache' = r.cache
    /\ uploaded_file' = u
    /\ view' = NoTable
    /\ UNCHANGED <<pdf, raw, readable, prog>>

\* lab1/lab1_app.py main(): the first run of the session.
DashLoadData ==
    /\ pc = "start"
    /\ Run(uploaded_file)

\* lab1/lab1_app.py main(), after the load: the date range filter, the
\* metrics, the tabs and the data explorer with its downloads.  The filter
\* rebinds main()'s local df, which is what every later call receives.  The
\* metrics format the first and last date, which raises on an empty view.
DashRender ==
    /\ prog = "dash" /\ pc = "enriched"
    /\ \E date_range \in DateSelections(table) :
          LET df == date_filter(table, date_range)
          IN  /\ view' = df
              /\ IF df.rows = <<>>
                 THEN /\ pc' = "crashed"
                      /\ output' = <<[kind |-> "filters",
                                       date_range |-> date_range],
                                      Error({})>>
                 ELSE /\ pc' = "rendered"
                      /\ \E year_range \in YearRanges(df) :
                         \E selected_months \in MonthSelections :
                            output' = <<[kind |-> "filters",
                                         date_range |-> date_range],
                                        [kind |-> "metrics"],
                                        [kind |-> "tabs"]>>
                                      \o create_data_explorer(
                                             df, year_range, selected_months)
    /\ UNCHANGED <<uploaded_file, cache, pdf, raw, readable, prog, table>>

\* lab1_app.py: df = load_data().  Nothing catches an exception.
AppLoadData ==
    /\ prog = "app" /\ pc = "start"
    /\ IF ~readable
       THEN /\ pc' = "crashed"
            /\ output' = <<Error({})>>
            /\ UNCHANGED table
       ELSE LET res == load_data_app(raw)
            IN  /\ table' = res.df
                /\ pc' = IF res.error THEN "crashed" ELSE "enriched"
                /\ output' = IF res.error THEN <<Error(res.named)>>
                                          ELSE output
    /\ UNCHANGED <<uploaded_file, cache, pdf, raw, readable, prog, view>>

\* lab1_app.py, after the load: the sidebar and filtered_df.
AppRender ==
    /\ prog = "app" /\ pc = "enriched"
    /\ \E start_date \in StartDates(table), end_date \in EndDates(table) :
          /\ view' = date_filter(table, <<start_date, end_date>>)
          /\ output' = <<[kind |-> "filters",
                          date_range |-> <<start_date, end_date>>],
                         [kind |-> "tabs"]>>
    /\ pc' = "rendered"
    /\ UNCHANGED <<uploaded_file, cache, pdf, raw, readable, prog, table>>

Next ==
    \/ ScriptLoadData
    \/ ScriptCleanMissing
    \/ ScriptCleanDuplicates
    \/ ScriptEngineerFeatures
    \/ ScriptReport
    \/ ScriptCharts
    \/ DashLoadData
    \/ DashRender
    \/ AppLoadData
    \/ AppRender

\* One run of each program on one input file, up to the page or the end.
Spec == Init /\ [][Next]_vars

\* ------------------------------------------------------------------------
\* Report generation in lab1_app.py
\* ------------------------------------------------------------------------

\* What a chart's try block may come to.
ChartOutcomes == {"plot_raises", "savefig_raises", "saved"}

\* One chart of create_comprehensive_pdf: NamedTemporaryFile(delete=False)
\* creates the file, plt.savefig writes it, and only then is its name
\* appended to temp_files; the except clause swallows any exception.
Chart(name, outcome) ==
    /\ tmp_dir' = IF outcome = "plot_raises" THEN tmp_dir
                  ELSE tmp_dir \cup {name}
    /\ temp_files' = IF outcome = "saved" THEN Append(temp_files, name)
                     ELSE temp_files

\* lab1_app.py: the button is pressed and create_comprehensive_pdf starts
\* (the document, the title, the statistics, temp_files = []).
PdfButton ==
    /\ prog = "app" /\ pc = "rendered"
    /\ pc' = "chart1"
    /\ temp_files' = <<>>
    /\ UNCHANGED <<uploaded_file, cache, tmp_dir, raw, readable, prog, table,
                   view, output>>

\* create_comprehensive_pdf: the first try block
PdfChart1 ==
    /\ prog = "app" /\ pc = "chart1"
    /\ \E outcome \in ChartOutcomes : Chart("temp_img1", outcome)
    /\ pc' = "chart2"
    /\ UNCHANGED <<uploaded_file, cache, raw, readable, prog, table, view,
                   output>>

\* create_comprehensive_pdf: the second try block
PdfChart2 ==
    /\ prog = "app" /\ pc = "chart2"
    /\ \E outcome \in ChartOutcomes : Chart("temp_img2", outcome)
    /\ pc' = "build"
    /\ UNCHANGED <<uploaded_file, cache, raw, readable, prog, table, view,
                   output>>

\* create_comprehensive_pdf: doc.build(story), outside any try block: an
\* exception leaves the function.
PdfBuild ==
    /\ prog = "app" /\ pc = "build"
    /\ \E built \in BOOLEAN :
          /\ pc' = IF built THEN "cleanup" ELSE "crashed"
          /\ output' = IF built THEN output ELSE Append(output, Error({}))
    /\ UNCHANGED <<uploaded_file, cache, pdf, raw, readable, prog, table,
                   view>>

\* create_comprehensive_pdf: the clean-up loop and the return.  os.unlink
\* may raise (the file is still open), which is printed and passed over.
PdfCleanup ==
    /\ prog = "app" /\ pc = "cleanup"
    /\ \E kept \in SUBSET Range(temp_files) :
          tmp_dir' = tmp_dir \ (Range(temp_files) \ kept)
    /\ pc' = "pdf_done"
    /\ output' = Append(output, [kind |-> "pdf"])
    /\ UNCHANGED <<uploaded_file, cache, temp_files, raw, readable, prog,
                   table, view>>

\* The inputs of the report runs: two rows each.
InitPdf ==
    /\ Init
    /\ prog = "app"
    /\ readable
    /\ raw \in TablesOf(FewRows, 2)

NextPdf ==
    \/ AppLoadData
    \/ AppRender
    \/ PdfButton
    \/ PdfChart1
    \/ PdfChart2
    \/ PdfBuild
    \/ PdfCleanup

\* lab1_app.py from its start to the end of a report generation.
SpecPdf == InitPdf /\ [][NextPdf]_vars

\* ------------------------------------------------------------------------
\* A session of the dashboard lab1/lab1_app.py
\* ------------------------------------------------------------------------

\* The default dataset, when it is there.
DefaultFiles == {t \in TablesOf(FewRows, 1) : t.rows[1]["date"].month = 1}

\* The files a user uploads: two that load and two that lack a column.
Uploads ==
    LET good == {t \in TablesOf(FewRows, 1) : t.rows[1]["date"].month = 6}
    IN  good \cup {WithoutColumn(t, "hidro") : t \in good}

\* The script is run again with the uploader as it is (any widget).
Rerun ==
    /\ pc # "start"
    /\ Run(uploaded_file)

\* st.file_uploader: the user uploads a file, which reruns the script.
Upload ==
    /\ pc # "start"
    /\ \E f \in Uploads \ {uploaded_file} : Run(f)

\* st.file_uploader: the user removes the upload, which reruns the script.
RemoveUpload ==
    /\ pc # "start"
    /\ uploaded_file # NoTable
    /\ Run(NoTable)

\* lab1/raw_energy_data.csv is put in place while the dashboard is up.
DefaultFileWritten ==
    /\ prog = "dash"
    /\ ~readable
    /\ readable' = TRUE
    /\ UNCHANGED <<uploaded_file, cache, pdf, raw, prog, pc, table, view,
                   output>>

\* lab1/raw_energy_data.csv is taken away while the dashboard is up.
DefaultFileRemoved ==
    /\ prog = "dash"
    /\ readable
    /\ readable' = FALSE
    /\ UNCHANGED <<uploaded_file, cache, pdf, raw, prog, pc, table, view,
                   output>>

InitCache ==
    /\ raw \in DefaultFiles
    /\ readable \in BOOLEAN
    /\ prog = "dash"
    /\ pc = "start"
    /\ table = NoTable
    /\ view = NoTable
    /\ output = <<>>
    /\ uploaded_file = NoTable
    /\ cache = {}
    /\ temp_files = <<>>
    /\ tmp_dir = {}

NextCache ==
    \/ DashLoadData
    \/ DashRender
    \/ Rerun
    \/ Upload
    \/ RemoveUpload
    \/ DefaultFileWritten
    \/ DefaultFileRemoved

\* A session: the first run, then reruns, uploads and removals, while the
\* default dataset may come and go.
SpecCache == InitCache /\ [][NextCache]_vars

\* ------------------------------------------------------------------------
\* Properties
\* ------------------------------------------------------------------------

Enriched == pc = "enriched"

\* lo <= x <= hi; false of a missing cell.
InRange(x, lo, hi) == FLe(Num(lo), x) /\ FLe(x, Num(hi))

\* The table the enrichment is applied to: the cleaned table in the script,
\* the table read from the file in the dashboards.
Before == IF prog = "script" THEN table ELSE raw

\* The step that enriches: the only steps that set pc to "enriched".
Enriches == pc # "enriched" /\ pc' = "enriched"

DerivedNames == Range(Steps(prog))

\* C1: every row of the table returned by the dashboard's load_data has
\* eficienta_retea in the closed range [0, 200], also where consum is 0 or
\* productie or consum is missing.
C1_EficientaInRange ==
    (prog = "dash" /\ Enriched) =>
        \A i \in DOMAIN table.rows :
            InRange(table.rows[i]["eficienta_retea"], 0, 200)

\* C2: every row whose productie is 0 or missing has procent_regenerabila
\* exactly 0 (no infinity, no NaN), in the dashboards and in the script.
C2_ZeroProductionGivesZero ==
    Enriched =>
        \A i \in DOMAIN table.rows :
            table.rows[i]["productie"] \in {Num(0), NaN}
                => table.rows[i]["procent_regenerabila"] = Num(0)

\* C3: every row with productie > 0 and non-negative source columns has
\* procent_regenerabila in the closed range [0, 100].
C3_PercentInRange ==
    Enriched =>
        \A i \in DOMAIN table.rows :
            LET r == table.rows[i]
            IN  (/\ FLe(Num(0), r["productie"]) /\ r["productie"] # Num(0)
                 /\ \A c \in Range(Renewable) \cup Range(NonRenewable) :
                        FLe(Num(0), r[c]))
                => InRange(r["procent_regenerabila"], 0, 100)

\* C4: in the dashboards' enriched table, sold_energetic of every row is
\* that row's productie minus that row's consum (missing when either is).
C4_SoldIsProductionMinusConsumption ==
    (prog \in {"dash", "app"} /\ Enriched) =>
        \A i \in DOMAIN table.rows :
            LET p == table.rows[i]["productie"]
                c == table.rows[i]["consum"]
                x == table.rows[i]["sold_energetic"]
            IN  IF IsNaN(p) \/ IsNaN(c) THEN IsNaN(x)
                ELSE /\ IsFinite(x)
                     /\ x[1] * p[2] * c[2] = (p[1] * c[2] - c[1] * p[2]) * x[2]

C4_Witness ==
    /\ prog = "dash" /\ Enriched
    /\ \E i \in DOMAIN table.rows :
          /\ table.rows[i]["productie"] = Num(3)
          /\ table.rows[i]["consum"] = Num(1)
          /\ table.rows[i]["sold_energetic"] = Num(2)

\* C5: after clean_data no numeric column of the returned table holds a
\* missing value, wherever the missing cells of the input are.
C5_NoMissingAfterClean ==
    (prog = "script" /\ pc = "cleaned") => missing(table) = 0

\* C6: of any two rows of the input that are equal on every column (and of
\* all the rows equal to them), the table returned by clean_data contains
\* exactly one.
C6_OneOfEqualRows ==
    (prog = "script" /\ pc = "cleaned") =>
        \A i, j \in DOMAIN raw.rows :
            (i < j /\ raw.rows[i] = raw.rows[j])
                => Cardinality({k \in DOMAIN raw.rows :
                                   /\ raw.rows[k] = raw.rows[i]
                                   /\ k - 1 \in Range(table.index)}) = 1

\* C7: duplicates are removed before missing values are interpolated: no
\* interpolated value is computed from a table that holds a duplicate row.
\* (At "interpolated" the table is the interpolation of raw.)
C7_DedupBeforeInterpolation ==
    (prog = "script" /\ pc = "interpolated" /\ table # raw)
        => duplicated(raw) = {}

\* C8: clean_data applied to the table clean_data returned removes no row
\* and returns a table equal to its input.
C8_CleanIdempotent ==
    (prog = "script" /\ pc = "cleaned") =>
        /\ Len(clean_data(table).rows) = Len(table.rows)
        /\ clean_data(table) = table

C8_Witness ==
    /\ prog = "script" /\ pc = "cleaned"
    /\ missing(raw) > 0 /\ missing(table) = 0
    /\ Len(table.rows) < Len(raw.rows)

\* C9: the enrichment returns as many rows as it was given, in the same
\* order: row i of the output is row i of the input, enriched.
C9_RowsKept ==
    [][Enriches =>
        /\ Len(table'.rows) = Len(Before.rows)
        /\ table'.index = Before.index
        /\ \A i \in DOMAIN Before.rows :
              \A c \in {"date", "productie", "consum"} :
                  table'.rows[i][c] = Before.rows[i][c]]_vars

C9_Witness ==
    /\ prog = "script" /\ Enriched
    /\ Len(table.rows) >= 2
    /\ Len(table.rows) < Len(raw.rows)
    /\ table.rows[1]["date"] # table.rows[2]["date"]

\* C10 as stated: every column of the input is present in the enriched
\* table with the same value in every row, also when the input has a column
\* named like a derived column.
C10_InputColumnsUnchanged ==
    [][Enriches =>
        \A c \in Range(Before.cols) :
            /\ c \in Range(table'.cols)
            /\ \A i \in DOMAIN Before.rows :
                  table'.rows[i][c] = Before.rows[i][c]]_vars

\* C10 amended: every column of the input is present in the enriched table
\* at its place, the new columns after them; an input column whose name is
\* not a derived column name has the same value in every row, and one whose
\* name is a derived column name holds the derived value.
C10_AppendsOrRecomputes ==
    [][Enriches =>
        /\ SubSeq(table'.cols, 1, Len(Before.cols)) = Before.cols
        /\ \A i \in DOMAIN Before.rows :
              /\ \A c \in Range(Before.cols) \ DerivedNames :
                    table'.rows[i][c] = Before.rows[i][c]
              /\ \A c \in Range(Before.cols) \cap DerivedNames :
                    table'.rows[i][c] = Derive(prog, c, table'.rows[i])]_vars

C10_Witness ==
    /\ Enriched
    /\ HasCol(raw, "an")
    /\ \E i \in DOMAIN table.rows :
          /\ raw.rows[i]["an"] = Num(7)
          /\ table.rows[i]["an"] = Num(2024)
          /\ table.rows[i]["productie"] = raw.rows[i]["productie"]

\* The columns the programs need in the input file: all of RawCols but the
\* optional sold.
Required == Range(RawCols) \ {"sold"}

Missing(t) == Required \ Range(t.cols)

\* The run has ended on a failure.
Failed == pc \in {"exited", "none", "crashed"}

\* C11: when the input lacks a required column the run fails with an error
\* that names every missing column, and no partially enriched table is
\* produced.
C11_MissingColumnsAllNamed ==
    (readable /\ Missing(raw) # {}
        /\ pc \notin {"start", "loaded", "interpolated", "cleaned"}) =>
        /\ Failed
        /\ \E i \in DOMAIN output :
              output[i].kind = "error" /\ output[i].named = Missing(raw)
        /\ Range(table.cols) \cap DerivedNames = {}

\* The file is not there, or read_csv cannot read it.
LoadFails == ~readable \/ ~HasCol(raw, "date")

\* C12: when the input file is missing or cannot be read, the failure is
\* reported and nothing else happens: the script exits, the dashboard's
\* load_data returns None and main() shows nothing after the error, and in
\* lab1_app.py the exception ends the run; no table, view, report, chart
\* or download exists, and no later step can run.
C12_LoadFailureStopsRun ==
    LoadFails =>
        \/ pc = "start" /\ output = <<>>
        \/ /\ Failed
           /\ output # <<>>
           /\ \A i \in DOMAIN output : output[i].kind = "error"
           /\ table = NoTable
           /\ view = NoTable
           /\ ~ENABLED Next

C12_Witness ==
    /\ ~readable
    /\ prog = "dash"
    /\ pc = "none"
    /\ Len(output) = 2

\* C13: for an input that has every required column but no sold column,
\* the run never fails, and the balance of every enriched row is
\* productie - consum.
C13_SoldOptional ==
    (readable /\ Missing(raw) = {} /\ ~HasCol(raw, "sold")) =>
        /\ ~Failed
        /\ (Enriched /\ prog # "script") =>
              \A i \in DOMAIN table.rows :
                  table.rows[i]["sold_energetic"]
                      = FSub(table.rows[i]["productie"],
                             table.rows[i]["consum"])

\* lab1/main.py main() from the table read to the end: the table, the
\* report and the balance chart it ends with.
ScriptRun(t) ==
    LET df == engineer_features(clean_data(t)).df
    IN  [df |-> create_visualizations(df).df,
         report |-> generate_analysis_report(df),
         chart |-> create_visualizations(df).chart]

\* Table t with 1 added to every value of its sold column: a table that
\* differs from t in the sold column only (a missing value stays missing).
OtherSold(t) ==
    SetCol(t, "sold", [i \in DOMAIN t.rows |-> FAdd(t.rows[i]["sold"], Num(1))])

\* C14: the input's sold column is ignored.  When the script has finished
\* on an input, a run on the input that differs only in its sold values
\* has the same balance field (sold_absolut), the same report and the same
\* balance chart.
C14_InputSoldIgnored ==
    (prog = "script" /\ pc = "done") =>
        LET other == ScriptRun(OtherSold(raw))
        IN  /\ Col(other.df, "sold_absolut") = Col(table, "sold_absolut")
            /\ other.report = output[1]
            /\ other.chart = output[2]

\* C15: once the table is enriched, no later step (report, charts, filters,
\* explorer, downloads) changes it.
C15_EnrichedTableUnchanged ==
    [][(pc \in {"enriched", "reported", "rendered", "done"})
          => (table' = table)]_vars

\* Row i of t as a table of its own.
OneRow(t, i) ==
    [cols |-> t.cols, index |-> <<t.index[i]>>, rows |-> <<t.rows[i]>>]

\* C16: every derived field of a row is a function of that row's input
\* fields only: the enrichment gives row i of a table the values it gives
\* the same row standing alone in a table, whatever the other rows hold.
C16_RowLocal ==
    [][Enriches =>
        \A i \in DOMAIN Before.rows :
            table'.rows[i]
                = Assign(prog, OneRow(Before, i), Steps(prog)).df.rows[1]]_vars

C16_Witness ==
    /\ Enriched
    /\ prog = "dash"
    /\ Len(table.rows) = 3
    /\ table.rows[1]["sold_energetic"] # table.rows[2]["sold_energetic"]
    /\ table.rows[2]["sold_energetic"] # table.rows[3]["sold_energetic"]

\* No two rows of t have the same timestamp.
DistinctTimes(t) ==
    \A i, j \in DOMAIN t.rows :
        i # j => t.rows[i]["date"] # t.rows[j]["date"]

\* The rows of t in the order f.
Permute(t, f) ==
    [cols |-> t.cols,
     index |-> t.index,
     rows |-> [i \in DOMAIN t.rows |-> t.rows[f[i]]]]

\* C17: interpolation goes along the timestamps: for an input whose
\* timestamps are distinct, clean_data of the same rows in any other order
\* gives every timestamp the same values.
C17_InterpolationByTimestamp ==
    (prog = "script" /\ pc = "cleaned" /\ DistinctTimes(raw)) =>
        \A f \in Permutations(DOMAIN raw.rows) :
            Range(clean_data(Permute(raw, f)).rows) = Range(table.rows)

\* C18: total_regenerabila is hidro + eolian + fotovolt + biomasa and
\* total_neregenerabila is carbune + hidrocarburi + nuclear of the same
\* row, and the two dashboards give the same totals for every row, also
\* where a source value is missing.
C18_TotalsAgree ==
    (Enriched /\ prog \in {"dash", "app"}) =>
        LET other == IF prog = "dash" THEN load_data_app(raw)
                     ELSE load_data_dash(raw)
        IN  /\ ~other.error
            /\ \A i \in DOMAIN table.rows :
                  LET r == table.rows[i]
                  IN  /\ r["total_regenerabila"]
                           = other.df.rows[i]["total_regenerabila"]
                      /\ r["total_neregenerabila"]
                           = other.df.rows[i]["total_neregenerabila"]
                      /\ (\A c \in Range(Renewable) \cup Range(NonRenewable) :
                              ~IsNaN(r[c]))
                           => /\ r["total_regenerabila"]
                                   = FAdd(FAdd(r["hidro"], r["eolian"]),
                                          FAdd(r["fotovolt"], r["biomasa"]))
                              /\ r["total_neregenerabila"]
                                   = FAdd(FAdd(r["carbune"], r["hidrocarburi"]),
                                          r["nuclear"])

\* Days whose weekday the calendar gives.
KnownDays ==
    {<<2024, 1, 1, "Monday">>, <<2024, 1, 5, "Friday">>,
     <<2024, 6, 8, "Saturday">>, <<2025, 10, 26, "Sunday">>}

\* C19: the calendar fields are the fields of the row's date; weekend is
\* true exactly when the weekday index (Monday = 0) is at least 5, which is
\* exactly when ziua_saptamanii is Saturday or Sunday; trimestru is the
\* quarter 1..4 that contains luna.
C19_CalendarFields ==
    Enriched =>
        \A i \in DOMAIN table.rows :
            LET r == table.rows[i]
                d == r["date"]
            IN  /\ r["an"] = Num(d.year)
                /\ r["luna"] = Num(d.month)
                /\ r["ziua"] = Num(d.day)
                /\ r["ora"] = Num(d.hour)
                /\ r["weekend"] \in BOOLEAN
                /\ r["weekend"] <=> (day_of_week(d) >= 5)
                /\ r["weekend"] <=>
                       (r["ziua_saptamanii"] \in {"Saturday", "Sunday"})
                /\ \A k \in KnownDays :
                       (d.year = k[1] /\ d.month = k[2] /\ d.day = k[3])
                           => r["ziua_saptamanii"] = k[4]
                /\ HasCol(table, "trimestru") =>
                       \E q \in 1..4 :
                           /\ r["trimestru"] = Num(q)
                           /\ 3 * (q - 1) < d.month
                           /\ d.month <= 3 * q

C19_Witness ==
    /\ Enriched
    /\ prog = "script"
    /\ \E i \in DOMAIN table.rows :
          /\ table.rows[i]["weekend"] = TRUE
          /\ table.rows[i]["ziua_saptamanii"] = "Saturday"
          /\ table.rows[i]["trimestru"] = Num(2)

\* The export the explorer owes for table t: a download exactly when some
\* row of t has an in year_range and luna in selected_months, and then both
\* files hold t's columns and exactly those rows, in t's order, every cell
\* as it is in t.
ExportOf(t, o) ==
    LET keep == SelectSeq(t.rows,
                    LAMBDA r : /\ r["an"][1] >= o.year_range[1]
                               /\ r["an"][1] <= o.year_range[2]
                               /\ r["luna"][1] \in o.selected_months)
        lines == [i \in DOMAIN keep |->
                    [k \in DOMAIN t.cols |->
                        IF t.cols[k] \in NonNumeric \/ ~IsNaN(keep[i][t.cols[k]])
                        THEN <<keep[i][t.cols[k]]>> ELSE <<>>]]
    IN  /\ (o.kind = "download") <=> (keep # <<>>)
        /\ o.kind = "download" =>
              /\ o.csv.header = t.cols
              /\ o.csv.lines = lines
              /\ o.excel.header = t.cols
              /\ o.excel.lines = lines

\* What the data explorer has shown.
Explorer == {i \in DOMAIN output : output[i].kind \in {"download", "warning"}}

\* C20 as stated: the explorer's downloads hold exactly the rows of the
\* enriched table whose an is in the selected year range and whose luna is
\* among the selected months, unchanged and in order, and are offered only
\* when there is such a row.
C20_ExportOfEnrichedTable ==
    (prog = "dash" /\ pc = "rendered") =>
        /\ Explorer # {}
        /\ \A i \in Explorer : ExportOf(table, output[i])

\* C20 amended: the same of the rows the sidebar's date range has left,
\* which is the table the explorer is given.
C20_ExportOfDateFilteredView ==
    (prog = "dash" /\ pc = "rendered") =>
        /\ Explorer # {}
        /\ \A i \in Explorer : ExportOf(view, output[i])

C20_Witness ==
    /\ prog = "dash" /\ pc = "rendered"
    /\ Len(view.rows) = 2
    /\ \E i \in Explorer :
          /\ output[i].kind = "download"
          /\ Len(output[i].csv.lines) = 1
          /\ output[i].year_range[1] # output[i].year_range[2]

\* The dashboard has applied its date filter.
Filtered ==
    /\ prog \in {"dash", "app"}
    /\ output # <<>>
    /\ output[1].kind = "filters"

\* C22: the date range filter yields exactly the rows of the enriched
\* table whose day d has start_date <= d <= end_date, in their order and
\* with their columns, and leaves the enriched table as load_data returned
\* it; no rows when start_date > end_date; and every row when the
\* selection of lab1/lab1_app.py is a single date.
C22_DateRangeFilter ==
    Filtered =>
        LET sel == output[1].date_range
            loaded == IF prog = "dash" THEN load_data_dash(raw).df
                      ELSE load_data_app(raw).df
        IN  /\ table = loaded
            /\ view.cols = table.cols
            /\ Len(sel) = 2 =>
                  view.rows = SelectSeq(table.rows,
                                  LAMBDA r : /\ sel[1] <= Day(r["date"])
                                             /\ Day(r["date"]) <= sel[2])
            /\ (Len(sel) = 2 /\ sel[1] > sel[2]) => view.rows = <<>>
            /\ Len(sel) # 2 => (prog = "dash" /\ view = table)

C22_Witness ==
    /\ Filtered
    /\ prog = "dash"
    /\ Len(table.rows) = 2
    /\ Len(view.rows) = 1
    /\ view.rows[1] = table.rows[2]
    /\ output[1].date_range[1] = output[1].date_range[2]

\* The derived columns the script and the dashboards share.
SharedDerived ==
    {"an", "luna", "ziua", "ora", "ziua_saptamanii", "weekend",
     "total_regenerabila", "procent_regenerabila"}

\* C24: for the same input, the script's clean_data followed by
\* engineer_features and the dashboards' load_data give the same rows and
\* the same values of the shared derived columns (trimestru too where the
\* dashboard has it), also for inputs with duplicate rows, missing values
\* or productie equal to 0.
C24_ScriptEqualsDashboard ==
    (prog = "script" /\ Enriched) =>
        \A res \in {load_data_dash(raw), load_data_app(raw)} :
            /\ ~res.error
            /\ res.df.index = table.index
            /\ \A c \in SharedDerived \cup
                         ({"trimestru"} \cap Range(res.df.cols)) :
                  Col(res.df, c) = Col(table, c)

\* C23: every temporary image file create_comprehensive_pdf created is gone
\* when the function is left, whether it returns or raises.
C23_TempFilesDeleted ==
    (prog = "app" /\ pc \in {"pdf_done", "crashed"}) => tmp_dir = {}

\* A step that runs main().
Runs == DashLoadData \/ Rerun \/ Upload \/ RemoveUpload

\* C21: after every run of the dashboard the table shown is the enrichment
\* of the input selected at that run (the upload, or the default dataset
\* when there is none), and an error is shown exactly when that input does
\* not load.
C21_DisplayedIsCurrentInput ==
    [][Runs =>
        LET res == load_data_file(Selected(uploaded_file', readable', raw'))
        IN  /\ table' = res.df
            /\ (pc' = "none") <=> res.error]_vars

====
